---- MODULE Spec2Model ----
(***************************************************************************)
(* Model of the time-window reducer (filterDataByTimeWindow), the density  *)
(* reduction (optimizeDataForTimeWindow) and the expiring in-memory cache  *)
(* (DataCache) of the defi-analytics-dashboard, with precomputeChartData,  *)
(* the data loaders of the pages and the PoolCharts placeholder.           *)
(*                                                                         *)
(* Time.  A JavaScript Date is a number of milliseconds since the epoch.   *)
(* That number does not fit TLC's integers, so an instant is the pair      *)
(* [day, ms]: the epoch day and the millisecond within that day (UTC),     *)
(* compared lexicographically; nan marks an Invalid Date.  The calendar    *)
(* operators follow the ECMAScript definitions the Date setters use        *)
(* (DayFromYear, InLeapYear, MonthFromTime, DateFromTime, MakeDay).        *)
(* The local time zone is a fixed offset from UTC (no daylight saving).    *)
(*                                                                         *)
(* DataCache only ever subtracts two Date.now() readings, so its clock     *)
(* (cacheClock) counts milliseconds from the start of the process.         *)
(***************************************************************************)
EXTENDS Integers, Sequences, FiniteSets, TLC

VARIABLES
  wallClock,    \* local wall-clock reading of `const now = new Date()`
  clockLag,     \* ms that pass before `let cutoffDate = new Date()` is read
  utcOffset,    \* local time minus UTC, in minutes
  data,         \* the series handed to the reducer
  timeWindow,   \* the window label handed to the reducer
  result,       \* what the last call returned
  prev,         \* what the call before it returned, when its output is fed back
  op,           \* the operation that acted last
  cache,        \* DataCache.cache: key -> CacheEntry
  cacheClock,   \* Date.now() as DataCache reads it, in ms since process start
  lastSet,      \* arguments and time of the last DataCache.set
  replaced,     \* the entry the last DataCache.set overwrote, if any
  lastKey,      \* key of the last DataCache call
  calls,        \* number of calls made so far
  ticks,        \* number of clock advances so far
  files,        \* the data directory: what each JSON file holds
  tokensData,   \* the tokensData prop the page hands to its client component
  poolData,     \* the poolData prop
  poolRegistry, \* the poolRegistry prop
  view,         \* what the page function came to
  poolSection,  \* what PoolCharts rendered
  page,         \* the client component that is mounted
  isChangingTimeWindow, \* PoolsClient: the loading flag of a window change
  pendingChanges, \* PoolsClient: the handleTimeWindowChange calls waiting on their timer
  uiClock,      \* ms since the component was mounted
  loading,      \* TableView: the loading flag
  isVisible,    \* LazyChart: isVisible
  hasLoaded,    \* LazyChart: hasLoaded
  observing,    \* LazyChart: whether an IntersectionObserver observes the element
  lazyTimers    \* LazyChart: due times of the pending setTimeout callbacks

pageVars == <<files, tokensData, poolData, poolRegistry, view, poolSection>>

uiVars == <<page, isChangingTimeWindow, pendingChanges, uiClock, loading,
            isVisible, hasLoaded, observing, lazyTimers>>

vars == <<calls, ticks, op, wallClock, clockLag, utcOffset, data, timeWindow,
          result, prev, cache, cacheClock, lastSet, replaced, lastKey,
          files, tokensData, poolData, poolRegistry, view, poolSection,
          page, isChangingTimeWindow, pendingChanges, uiClock, loading,
          isVisible, hasLoaded, observing, lazyTimers>>

-----------------------------------------------------------------------------
(* Calendar arithmetic of Date (ECMAScript 21.4.1) *)

MsPerMinute == 60 * 1000
MsPerDay == 24 * 60 * MsPerMinute

InLeapYear(y) == (y % 4 = 0 /\ y % 100 # 0) \/ y % 400 = 0

DayFromYear(y) ==
  365 * (y - 1970) + ((y - 1969) \div 4) - ((y - 1901) \div 100) + ((y - 1601) \div 400)

YearFromDay(day) ==
  CHOOSE y \in (1970 + day \div 366) .. (1970 + day \div 365) :
    DayFromYear(y) <= day /\ day < DayFromYear(y + 1)

\* days before the first of month m (0 = January) in year y
DaysBeforeMonth(y, m) ==
  <<0, 31, 59, 90, 120, 151, 181, 212, 243, 273, 304, 334, 365>>[m + 1]
    + (IF m >= 2 /\ InLeapYear(y) THEN 1 ELSE 0)

DaysInMonth(y, m) == DaysBeforeMonth(y, m + 1) - DaysBeforeMonth(y, m)

DayWithinYear(day) == day - DayFromYear(YearFromDay(day))

\* getMonth(): 0..11
MonthFromDay(day) ==
  LET y == YearFromDay(day)
      w == DayWithinYear(day)
  IN  CHOOSE m \in 0..11 : DaysBeforeMonth(y, m) <= w /\ w < DaysBeforeMonth(y, m + 1)

\* getDate(): 1..31
DateFromDay(day) ==
  DayWithinYear(day) - DaysBeforeMonth(YearFromDay(day), MonthFromDay(day)) + 1

\* MakeDay(year, month, date): month and date of any size carry over, which is
\* how setMonth(-3) reaches the previous year and how 31 February becomes 3 March
MakeDay(year, month, date) ==
  LET ym == year + (month \div 12)
      mn == month % 12
  IN  DayFromYear(ym) + DaysBeforeMonth(ym, mn) + date - 1

Instant(day, ms) == [day |-> day + (ms \div MsPerDay), ms |-> ms % MsPerDay, nan |-> FALSE]

InvalidDate == [day |-> 0, ms |-> 0, nan |-> TRUE]

\* a >= b on Dates: false as soon as either side is an Invalid Date (NaN)
DateGe(a, b) ==
  /\ ~a.nan
  /\ ~b.nan
  /\ (a.day > b.day \/ (a.day = b.day /\ a.ms >= b.ms))

\* a local wall-clock time as an instant (UTC)
ToUtc(t) == Instant(t.day, t.ms - utcOffset * MsPerMinute)

\* cutoffDate.setFullYear(y): same local month, date and time of day
SetFullYear(t, y) == Instant(MakeDay(y, MonthFromDay(t.day), DateFromDay(t.day)), t.ms)

\* cutoffDate.setMonth(m)
SetMonth(t, m) == Instant(MakeDay(YearFromDay(t.day), m, DateFromDay(t.day)), t.ms)

\* cutoffDate.setDate(d)
SetDate(t, d) == Instant(MakeDay(YearFromDay(t.day), MonthFromDay(t.day), d), t.ms)

\* A date field is the ISO day string "YYYY-MM-DD" as <<year, month, day>>
\* (month 1..12); NoDate is a missing date field.
NoDate == <<>>

\* a date field whose string is no date ("2025-13-45")
NotADate == <<2025, 13, 45>>

IsIsoDay(s) ==
  /\ Len(s) = 3
  /\ s[2] \in 1..12
  /\ s[3] \in 1..DaysInMonth(s[1], s[2] - 1)

\* new Date(item.date): a date-only ISO string is UTC midnight of that day
ParseDate(s) ==
  IF IsIsoDay(s) THEN Instant(MakeDay(s[1], s[2] - 1, s[3]), 0) ELSE InvalidDate

\* the ISO day string of an epoch day
IsoDay(day) == <<YearFromDay(day), MonthFromDay(day) + 1, DateFromDay(day)>>

-----------------------------------------------------------------------------
(* TimeWindowFilter.tsx *)

TimeWindows == {"ALL", "3Y", "1Y", "6M", "3M", "1M", "1W"}

\* the two clock readings of filterDataByTimeWindow, as local wall-clock time
NowDate == wallClock

CutoffBase == Instant(wallClock.day, wallClock.ms + clockLag)

\* the switch with the 1W case written as setDate(now.getDate() - 70)
CutoffLocalLongWeek(w) ==
  LET now == NowDate
      cutoffDate == CutoffBase
  IN  CASE w = "3Y" -> SetFullYear(cutoffDate, YearFromDay(now.day) - 3)
        [] w = "1Y" -> SetFullYear(cutoffDate, YearFromDay(now.day) - 1)
        [] w = "6M" -> SetMonth(cutoffDate, MonthFromDay(now.day) - 6)
        [] w = "3M" -> SetMonth(cutoffDate, MonthFromDay(now.day) - 3)
        [] w = "1M" -> SetMonth(cutoffDate, MonthFromDay(now.day) - 1)
        [] w = "1W" -> SetDate(cutoffDate, DateFromDay(now.day) - 70)
        [] OTHER -> cutoffDate

\* the switch of filterDataByTimeWindow: the cutoff as a local wall-clock time
CutoffLocal(w) ==
  LET now == NowDate
      cutoffDate == CutoffBase
  IN  CASE w = "3Y" -> SetFullYear(cutoffDate, YearFromDay(now.day) - 3)
        [] w = "1Y" -> SetFullYear(cutoffDate, YearFromDay(now.day) - 1)
        [] w = "6M" -> SetMonth(cutoffDate, MonthFromDay(now.day) - 6)
        [] w = "3M" -> SetMonth(cutoffDate, MonthFromDay(now.day) - 3)
        [] w = "1M" -> SetMonth(cutoffDate, MonthFromDay(now.day) - 1)
        [] w = "1W" -> SetDate(cutoffDate, DateFromDay(now.day) - 7)
        [] OTHER -> cutoffDate

\* the cutoff as an instant (UTC), which is what >= compares
CutoffDate(w) == ToUtc(CutoffLocal(w))

\* a > b on Dates
DateGt(a, b) ==
  /\ ~a.nan
  /\ ~b.nan
  /\ (a.day > b.day \/ (a.day = b.day /\ a.ms > b.ms))

\* FilterFrom with > for >=: a point dated on the cutoff instant is dropped
FilterFromStrict(d, cutoffDate) ==
  SelectSeq(d, LAMBDA item : DateGt(ParseDate(item.date), cutoffDate))

\* FilterFrom as a slice after the first point at or after the cutoff, off by
\* one: data.slice(data.findIndex(item => new Date(item.date) >= cutoffDate) + 1)
FilterFromSliceAfter(d, cutoffDate) ==
  LET due == {i \in 1..Len(d) : DateGe(ParseDate(d[i].date), cutoffDate)}
  IN  IF due = {} THEN <<>>
      ELSE SubSeq(d, (CHOOSE i \in due : \A j \in due : i <= j) + 1, Len(d))

\* FilterFrom written as data.filter(item => !(new Date(item.date) < cutoffDate))
FilterFromNotBefore(d, cutoffDate) ==
  SelectSeq(d, LAMBDA item : ~DateGt(cutoffDate, ParseDate(item.date)))

\* data.filter(item => new Date(item.date) >= cutoffDate)
FilterFrom(d, cutoffDate) ==
  SelectSeq(d, LAMBDA item : DateGe(ParseDate(item.date), cutoffDate))

\* filterDataByTimeWindow without the early return for ALL: the switch has no
\* case for it, so the cutoff stays at the current instant
filterDataByTimeWindowNoAll(d, w) ==
  IF Len(d) = 0
  THEN d
  ELSE SelectSeq(d, LAMBDA item : DateGe(ParseDate(item.date), CutoffDate(w)))

filterDataByTimeWindow(d, w) ==
  IF w = "ALL" \/ Len(d) = 0
  THEN d
  ELSE FilterFrom(d, CutoffDate(w))

-----------------------------------------------------------------------------
(* lib/cache: DataCache *)

\* null: the absence signal, a value that is no array of points
Null == <<[null |-> TRUE]>>

NoEntry == [data |-> Null, timestamp |-> -1, ttl |-> -1]

NoSet == [key |-> <<>>, value |-> Null, ttlMinutes |-> -1, at |-> -1]

\* has with the expiry test now - entry.timestamp >= entry.ttl
DataCache_hasAtBoundary(c, key) ==
  IF key \notin DOMAIN c THEN FALSE
  ELSE IF cacheClock - c[key].timestamp >= c[key].ttl THEN FALSE
  ELSE TRUE

\* set on a cache capped at one entry: the other keys are evicted
DataCache_setCapped(c, key, value, ttlMinutes) ==
  [k \in {key} |->
     [data |-> value, timestamp |-> cacheClock, ttl |-> ttlMinutes * 60 * 1000]]

\* DataCache.set that keeps the creation timestamp of the entry it overwrites
DataCache_setKeepsTimestamp(c, key, value, ttlMinutes) ==
  [k \in DOMAIN c \cup {key} |->
     IF k = key
     THEN [data |-> value,
           timestamp |-> IF key \in DOMAIN c THEN c[key].timestamp ELSE cacheClock,
           ttl |-> ttlMinutes * 60 * 1000]
     ELSE c[k]]

\* this.cache.set(key, {data, timestamp: Date.now(), ttl: ttlMinutes * 60 * 1000})
DataCache_set(c, key, value, ttlMinutes) ==
  [k \in DOMAIN c \cup {key} |->
     IF k = key
     THEN [data |-> value, timestamp |-> cacheClock, ttl |-> ttlMinutes * 60 * 1000]
     ELSE c[k]]

\* the expiry test of get and has: now - entry.timestamp > entry.ttl
Expired(entry) == cacheClock - entry.timestamp > entry.ttl

\* what get(key) returns
DataCache_get(c, key) ==
  IF key \notin DOMAIN c THEN Null
  ELSE IF Expired(c[key]) THEN Null
  ELSE c[key].data

\* what has(key) returns
DataCache_has(c, key) ==
  IF key \notin DOMAIN c THEN FALSE
  ELSE IF Expired(c[key]) THEN FALSE
  ELSE TRUE

\* get and has without this.cache.delete(key): the expired entry stays
DataCache_evictNever(c, key) == c

\* the cache after get(key) or has(key): an expired entry is deleted
DataCache_evict(c, key) ==
  IF key \in DOMAIN c /\ Expired(c[key])
  THEN [k \in DOMAIN c \ {key} |-> c[k]]
  ELSE c

DataCache_size(c) == Cardinality(DOMAIN c)

EmptyCache == [k \in {} |-> NoEntry]

-----------------------------------------------------------------------------
(* lib/cache: optimizeDataForTimeWindow *)

WeekPoints == 7
MonthThreshold == 60
MonthPoints == 30
QuarterThreshold == 180
QuarterTail == 90
YearPoints == 365
OptimizeTtlMinutes == 30

\* `optimized_${timeWindow}_${data.length}`
CacheKey(w, n) == <<"optimized", w, n>>

\* data.slice(-k)
SliceLast(d, k) == SubSeq(d, IF Len(d) > k THEN Len(d) - k + 1 ELSE 1, Len(d))

\* data.filter((_, index) => index % stride === 0 || index >= data.length - tail)
Subsample(d, stride, tail) ==
  LET kept == SelectSeq([i \in 1..Len(d) |-> i - 1],
                        LAMBDA index : index % stride = 0 \/ index >= Len(d) - tail)
  IN  [k \in 1..Len(kept) |-> d[kept[k] + 1]]

\* the branches that compute optimizedData on a cache miss
OptimizedData(d, w) ==
  IF w = "1W" /\ Len(d) > WeekPoints THEN SliceLast(d, WeekPoints)
  ELSE IF w = "1M" /\ Len(d) > MonthThreshold THEN SliceLast(d, MonthPoints)
  ELSE IF w = "3M" /\ Len(d) > QuarterThreshold THEN Subsample(d, 2, QuarterTail)
  ELSE IF w = "1Y" /\ Len(d) > YearPoints THEN Subsample(d, 7, YearPoints)
  ELSE d

\* whether the call returns before the cache is consulted
OptimizeSkips(d, w) == w = "ALL" \/ Len(d) = 0

\* optimizeDataForTimeWindow that never finds its result in the cache
OptimizeNeverHits(c, d, w) == FALSE

\* `if (cached && Array.isArray(cached)) return cached`: every stored value of
\* the model is an array, so a hit is a live entry
OptimizeHits(c, d, w) ==
  /\ ~OptimizeSkips(d, w)
  /\ DataCache_get(c, CacheKey(w, Len(d))) # Null

\* what optimizeDataForTimeWindow(data, timeWindow) returns with cache c
optimizeDataForTimeWindow(c, d, w) ==
  IF OptimizeSkips(d, w) THEN d
  ELSE IF OptimizeHits(c, d, w) THEN DataCache_get(c, CacheKey(w, Len(d)))
  ELSE OptimizedData(d, w)

\* the cache it leaves behind
OptimizeCache(c, d, w) ==
  IF OptimizeSkips(d, w) \/ OptimizeHits(c, d, w) THEN c
  ELSE DataCache_set(DataCache_evict(c, CacheKey(w, Len(d))),
                     CacheKey(w, Len(d)), OptimizedData(d, w), OptimizeTtlMinutes)

-----------------------------------------------------------------------------
(* lib/cache: precomputeChartData and formatCurrency *)

\* a JavaScript array, told apart from undefined and null by its tag
JsArray(items) == [t |-> "array", items |-> items]

\* item.tvl || item.tvlUsd || 0: the two fields looked up the other way round
TvlOfTvlFirst(item) ==
  IF "tvl" \in DOMAIN item /\ item.tvl # 0 THEN item.tvl
  ELSE IF "tvlUsd" \in DOMAIN item /\ item.tvlUsd # 0 THEN item.tvlUsd
  ELSE 0

\* item.tvlUsd || item.tvl || 0
TvlOf(item) ==
  IF "tvlUsd" \in DOMAIN item /\ item.tvlUsd # 0 THEN item.tvlUsd
  ELSE IF "tvl" \in DOMAIN item /\ item.tvl # 0 THEN item.tvl
  ELSE 0

\* (value / unit).toFixed(1), as a number of tenths, for unit 1000, 10^6, 10^9
ToFixed1(value, unit) == (value + unit \div 20) \div (unit \div 10)

\* formatCurrency(value) for a whole number of dollars: `$<tenths / 10><suffix>`
formatCurrency(value) ==
  IF value >= 1000000000 THEN [tenths |-> ToFixed1(value, 1000000000), suffix |-> "B"]
  ELSE IF value >= 1000000 THEN [tenths |-> ToFixed1(value, 1000000), suffix |-> "M"]
  ELSE IF value >= 1000 THEN [tenths |-> ToFixed1(value, 1000), suffix |-> "K"]
  ELSE [tenths |-> value * 10, suffix |-> ""]

\* `${item.apy?.toFixed(1) || '0.0'}%`, apy held in hundredths of a percent
FormattedApy(item) ==
  IF "apy" \in DOMAIN item
  THEN [tenths |-> (item.apy + 5) \div 10, suffix |-> "%"]
  ELSE [tenths |-> 0, suffix |-> "%"]

\* ((tvl - prevTvl) / prevTvl) * 100 without the test of prevTvl
TvlChangeUnguarded(tvl, prevTvl) ==
  [num |-> tvl - prevTvl, den |-> prevTvl, times |-> 100]

\* prevTvl > 0 ? ((tvl - prevTvl) / prevTvl) * 100 : 0, kept as the quotient
TvlChange(tvl, prevTvl) ==
  IF prevTvl > 0 THEN [num |-> tvl - prevTvl, den |-> prevTvl, times |-> 100]
  ELSE [num |-> 0, den |-> 1, times |-> 100]

\* the callback of timeseries.map: {...item, tvl, tvlChange, formattedTvl,
\* formattedApy} for the item at `index` (counted from 1)
ChartPoint(timeseries, index) ==
  LET item == timeseries[index]
      tvl == TvlOf(item)
      prevTvl == IF index > 1 THEN TvlOf(timeseries[index - 1]) ELSE tvl
  IN  [tvl |-> tvl,
       tvlChange |-> TvlChange(tvl, prevTvl),
       formattedTvl |-> formatCurrency(tvl),
       formattedApy |-> FormattedApy(item)] @@ item

\* if (!timeseries || timeseries.length === 0) return timeseries
\* return timeseries.map(...)
precomputeChartData(timeseries) ==
  IF timeseries.t # "array" THEN timeseries
  ELSE IF Len(timeseries.items) = 0 THEN timeseries
  ELSE JsArray([index \in 1..Len(timeseries.items) |->
                  ChartPoint(timeseries.items, index)])

-----------------------------------------------------------------------------
(* The array passed to a reducer, as it is once the call has returned.     *)
(* filter, slice and map build new arrays and the spread builds new        *)
(* objects, so the argument is as it was.                                  *)

\* data after filterDataByTimeWindow(data, timeWindow): data.filter(...)
ArgumentAfterFilter(d, w) == d

\* data after an optimizeDataForTimeWindow that cuts in place: data.splice(...)
ArgumentAfterSplice(d, w) == OptimizedData(d, w)

\* data after optimizeDataForTimeWindow(data, timeWindow): slice and filter
ArgumentAfterOptimize(d, w) == d

\* timeseries after precomputeChartData(timeseries): map over {...item, ...}
ArgumentAfterPrecompute(timeseries) == timeseries

-----------------------------------------------------------------------------
(* The series handed to the reducers: arrays of {date, price} points.  The *)
(* price of a point is its position in the series, so the points of one    *)
(* series are pairwise distinct.                                           *)

Point(day, i) == [date |-> IsoDay(day), price |-> i]

SeriesKinds == {"daily", "newestFirst", "sparse", "twice", "undated"}

\* a series of n points whose latest date is `last`
Series(kind, n, last) ==
  [i \in 1..n |->
     CASE kind = "daily" -> Point(last - (n - i), i)
       [] kind = "newestFirst" -> Point(last - (i - 1), i)
       [] kind = "sparse" -> Point(last - 30 * (n - i), i)
       [] kind = "twice" -> Point(last - ((n - i) \div 2), i)
       [] kind = "undated" -> IF i % 5 = 0 THEN [date |-> NoDate, price |-> i]
                              ELSE IF i % 5 = 3 THEN [date |-> NotADate, price |-> i]
                              ELSE Point(last - (n - i), i)]

MaxCalls == 2
MaxCacheCalls == 3
MaxTicks == 3

\* what the variables a specification does not use are held at
\* undefined: a prop or variable that holds nothing yet
Undefined == [t |-> "undefined"]

\* no page has been requested
IdlePages ==
  /\ files = [tokens |-> [kind |-> "missing"], pools |-> [kind |-> "missing"],
              registry |-> [kind |-> "missing"], fallback |-> [kind |-> "missing"]]
  /\ tokensData = Undefined
  /\ poolData = Undefined
  /\ poolRegistry = Undefined
  /\ view = "none"
  /\ poolSection = "none"

\* no client component is mounted
IdleUi ==
  /\ page = "none"
  /\ isChangingTimeWindow = FALSE
  /\ pendingChanges = <<>>
  /\ uiClock = 0
  /\ loading = TRUE
  /\ isVisible = FALSE
  /\ hasLoaded = FALSE
  /\ observing = FALSE
  /\ lazyTimers = <<>>

IdleClock ==
  /\ wallClock = Instant(MakeDay(2025, 8, 2), 0)
  /\ clockLag = 0
  /\ utcOffset = 0

IdleCache ==
  /\ cache = EmptyCache
  /\ cacheClock = 0
  /\ lastSet = NoSet
  /\ replaced = NoEntry
  /\ lastKey = <<>>
  /\ ticks = 0

-----------------------------------------------------------------------------
(* One call of optimizeDataForTimeWindow(d, w) on the module-wide dataCache *)

OptimizeOps == {"optimizeSkip", "optimizeHit", "optimizeMiss"}

OptimizeCall(d, w) ==
  /\ result' = optimizeDataForTimeWindow(cache, d, w)
  /\ cache' = OptimizeCache(cache, d, w)
  /\ lastKey' = IF OptimizeSkips(d, w) THEN lastKey ELSE CacheKey(w, Len(d))
  /\ lastSet' = IF OptimizeSkips(d, w) \/ OptimizeHits(cache, d, w) THEN lastSet
                ELSE [key |-> CacheKey(w, Len(d)), value |-> OptimizedData(d, w),
                      ttlMinutes |-> OptimizeTtlMinutes, at |-> cacheClock]
  /\ replaced' = IF OptimizeSkips(d, w) \/ OptimizeHits(cache, d, w) THEN replaced
                 ELSE IF CacheKey(w, Len(d)) \in DOMAIN DataCache_evict(cache, CacheKey(w, Len(d)))
                 THEN cache[CacheKey(w, Len(d))] ELSE NoEntry
  /\ calls' = calls + 1
  /\ UNCHANGED <<wallClock, clockLag, utcOffset, cacheClock, ticks>>

OptimizeOutcome(d, w) ==
  IF OptimizeSkips(d, w) THEN "optimizeSkip"
  ELSE IF OptimizeHits(cache, d, w) THEN "optimizeHit" ELSE "optimizeMiss"

-----------------------------------------------------------------------------
(* The reducers applied to a series, and then to their own output, at one  *)
(* instant                                                                 *)

UtcOffsets == {-300, 0, 330}

DayTimes == {0, 12 * 60 * MsPerMinute, MsPerDay - 1}

FilterDays == {MakeDay(2025, 8, 2), MakeDay(2025, 2, 31)}

FilterInputs(today) ==
  {<<>>}
  \cup {Series(kind, n, today - back) :
          kind \in SeriesKinds, n \in {1, 8}, back \in {0, 1, 45}}
  \cup {Series(kind, 61, today - back) : kind \in {"daily", "sparse"}, back \in {0, 1}}
  \cup {Series("daily", n, today - 1) : n \in {271, 373, 400}}

InitFilter ==
  /\ IdlePages
  /\ IdleUi
  /\ wallClock \in {Instant(day, ms) : day \in FilterDays, ms \in DayTimes}
  /\ clockLag \in {0, 1}
  /\ utcOffset \in UtcOffsets
  /\ data \in FilterInputs(wallClock.day)
  /\ timeWindow \in TimeWindows
  /\ result = <<>>
  /\ prev = <<>>
  /\ op = "start"
  /\ calls = 0
  /\ IdleCache

CallFilter ==
  /\ UNCHANGED pageVars
  /\ UNCHANGED uiVars
  /\ op = "start"
  /\ result' = filterDataByTimeWindow(data, timeWindow)
  /\ data' = ArgumentAfterFilter(data, timeWindow)
  /\ op' = "filter"
  /\ calls' = calls + 1
  /\ UNCHANGED <<wallClock, clockLag, utcOffset, timeWindow, prev,
                 cache, cacheClock, lastSet, replaced, lastKey, ticks>>

\* the output of the first call is filtered again at the same instant
FilterAgain ==
  /\ UNCHANGED pageVars
  /\ UNCHANGED uiVars
  /\ op = "filter"
  /\ prev' = result
  /\ result' = filterDataByTimeWindow(result, timeWindow)
  /\ op' = "filterAgain"
  /\ calls' = calls + 1
  /\ UNCHANGED <<wallClock, clockLag, utcOffset, data, timeWindow,
                 cache, cacheClock, lastSet, replaced, lastKey, ticks>>

CallOptimize ==
  /\ UNCHANGED pageVars
  /\ UNCHANGED uiVars
  /\ op = "start"
  /\ OptimizeCall(data, timeWindow)
  /\ data' = ArgumentAfterOptimize(data, timeWindow)
  /\ op' = OptimizeOutcome(data, timeWindow)
  /\ UNCHANGED <<timeWindow, prev>>

\* the output of the first call is reduced again at the same instant
OptimizeAgain ==
  /\ UNCHANGED pageVars
  /\ UNCHANGED uiVars
  /\ op \in OptimizeOps
  /\ calls = 1
  /\ OptimizeCall(result, timeWindow)
  /\ prev' = result
  /\ op' = "optimizeAgain"
  /\ UNCHANGED <<data, timeWindow>>

\* precomputeChartData(data.timeseries), as the loaders call it on a series
CallPrecompute ==
  /\ UNCHANGED pageVars
  /\ UNCHANGED uiVars
  /\ op = "start"
  /\ result' = precomputeChartData(JsArray(data)).items
  /\ data' = ArgumentAfterPrecompute(data)
  /\ op' = "precompute"
  /\ calls' = calls + 1
  /\ UNCHANGED <<wallClock, clockLag, utcOffset, timeWindow, prev,
                 cache, cacheClock, lastSet, replaced, lastKey, ticks>>

NextFilter == CallFilter \/ FilterAgain \/ CallOptimize \/ OptimizeAgain \/ CallPrecompute

SpecFilter == InitFilter /\ [][NextFilter]_vars

\* every day of the leap year 2024 as the current date, with a short series
InitCutoff ==
  /\ IdlePages
  /\ IdleUi
  /\ wallClock \in {Instant(day, ms) :
                      day \in MakeDay(2024, 0, 1) .. MakeDay(2024, 11, 31),
                      ms \in {0, MsPerDay - 1}}
  /\ clockLag \in {0, 1}
  /\ utcOffset \in {0, 330}
  /\ timeWindow \in TimeWindows
  /\ data = Series("sparse", 3, wallClock.day - 1)
  /\ result = <<>>
  /\ prev = <<>>
  /\ op = "start"
  /\ calls = 0
  /\ IdleCache

NextCutoff == CallFilter

SpecCutoff == InitCutoff /\ [][NextCutoff]_vars

-----------------------------------------------------------------------------
(* DataCache driven by its callers *)

CacheKeys == {<<"tokens">>, <<"pools">>}

CacheValues == {<<>>, Series("daily", 2, MakeDay(2025, 8, 1))}

TtlChoices == {0, 1}

ClockSteps == {1, MsPerMinute - 1}

InitCache ==
  /\ IdlePages
  /\ IdleUi
  /\ IdleClock
  /\ IdleCache
  /\ data = <<>>
  /\ timeWindow = "ALL"
  /\ result = <<>>
  /\ prev = <<>>
  /\ op = "start"
  /\ calls = 0

Set(key, value, ttlMinutes) ==
  /\ UNCHANGED pageVars
  /\ UNCHANGED uiVars
  /\ calls < MaxCacheCalls
  /\ cache' = DataCache_set(cache, key, value, ttlMinutes)
  /\ replaced' = IF key \in DOMAIN cache THEN cache[key] ELSE NoEntry
  /\ lastSet' = [key |-> key, value |-> value, ttlMinutes |-> ttlMinutes, at |-> cacheClock]
  /\ lastKey' = key
  /\ result' = Null
  /\ op' = "set"
  /\ calls' = calls + 1
  /\ UNCHANGED <<wallClock, clockLag, utcOffset, data, timeWindow, prev, cacheClock, ticks>>

Get(key) ==
  /\ UNCHANGED pageVars
  /\ UNCHANGED uiVars
  /\ calls < MaxCacheCalls
  /\ result' = DataCache_get(cache, key)
  /\ cache' = DataCache_evict(cache, key)
  /\ lastKey' = key
  /\ op' = "get"
  /\ calls' = calls + 1
  /\ UNCHANGED <<wallClock, clockLag, utcOffset, data, timeWindow, prev, cacheClock,
                 lastSet, replaced, ticks>>

Has(key) ==
  /\ UNCHANGED pageVars
  /\ UNCHANGED uiVars
  /\ calls < MaxCacheCalls
  /\ result' = DataCache_has(cache, key)
  /\ cache' = DataCache_evict(cache, key)
  /\ lastKey' = key
  /\ op' = "has"
  /\ calls' = calls + 1
  /\ UNCHANGED <<wallClock, clockLag, utcOffset, data, timeWindow, prev, cacheClock,
                 lastSet, replaced, ticks>>

Clear ==
  /\ UNCHANGED pageVars
  /\ UNCHANGED uiVars
  /\ calls < MaxCacheCalls
  /\ cache' = EmptyCache
  /\ lastSet' = NoSet
  /\ result' = Null
  /\ op' = "clear"
  /\ calls' = calls + 1
  /\ UNCHANGED <<wallClock, clockLag, utcOffset, data, timeWindow, prev, cacheClock,
                 replaced, lastKey, ticks>>

Size ==
  /\ UNCHANGED pageVars
  /\ UNCHANGED uiVars
  /\ calls < MaxCacheCalls
  /\ result' = DataCache_size(cache)
  /\ op' = "size"
  /\ calls' = calls + 1
  /\ UNCHANGED <<wallClock, clockLag, utcOffset, data, timeWindow, prev, cache, cacheClock,
                 lastSet, replaced, lastKey, ticks>>

\* time passes between two calls
Tick(ms) ==
  /\ UNCHANGED pageVars
  /\ UNCHANGED uiVars
  /\ ticks < MaxTicks
  /\ cacheClock' = cacheClock + ms
  /\ ticks' = ticks + 1
  /\ op' = "tick"
  /\ UNCHANGED <<wallClock, clockLag, utcOffset, data, timeWindow, result, prev, cache,
                 lastSet, replaced, lastKey, calls>>

NextCache ==
  \/ \E key \in CacheKeys, value \in CacheValues, ttlMinutes \in TtlChoices :
        Set(key, value, ttlMinutes)
  \/ \E key \in CacheKeys : Get(key)
  \/ \E key \in CacheKeys : Has(key)
  \/ Clear
  \/ Size
  \/ \E ms \in ClockSteps : calls \in 1..(MaxCacheCalls - 1) /\ Tick(ms)

SpecCache == InitCache /\ [][NextCache]_vars

-----------------------------------------------------------------------------
(* optimizeDataForTimeWindow called on one series after another, sharing   *)
(* the module-wide dataCache                                               *)

OptimizeLens == {0, 8, 373}

OptimizeInputs ==
  {Series("daily", n, MakeDay(2025, 8, 1) - back) : n \in OptimizeLens, back \in {0, 30}}

\* 6M stands for the labels the function has no branch for (3Y, 6M)
OptimizeWindows == {"ALL", "6M", "1Y", "3M", "1M", "1W"}

Optimize(d, w) ==
  /\ UNCHANGED pageVars
  /\ UNCHANGED uiVars
  /\ calls < MaxCalls
  /\ data' = d
  /\ timeWindow' = w
  /\ OptimizeCall(d, w)
  /\ prev' = <<>>
  /\ op' = OptimizeOutcome(d, w)

\* time passes between two calls: a millisecond, the 30 minutes, or more
Wait(ms) ==
  /\ UNCHANGED pageVars
  /\ UNCHANGED uiVars
  /\ op \in OptimizeOps
  /\ calls < MaxCalls
  /\ cacheClock' = cacheClock + ms
  /\ ticks' = ticks + 1
  /\ op' = "tick"
  /\ UNCHANGED <<wallClock, clockLag, utcOffset, data, timeWindow, result, prev, cache,
                 lastSet, replaced, lastKey, calls>>

NextOptimize ==
  \/ \E d \in OptimizeInputs, w \in OptimizeWindows : Optimize(d, w)
  \/ \E ms \in {1, OptimizeTtlMinutes * MsPerMinute, OptimizeTtlMinutes * MsPerMinute + 1} :
        Wait(ms)

InitOptimize == InitCache

SpecOptimize == InitOptimize /\ [][NextOptimize]_vars

-----------------------------------------------------------------------------
(* JSON values: null, an object (a mapping from keys to values), and the   *)
(* time series, which are sequences of point records.  A thrown exception  *)
(* is the value Thrown.                                                    *)

JsNull == [t |-> "null"]

JsObject(entries) == [t |-> "object", entries |-> entries]

EmptyObject == JsObject([k \in {} |-> JsNull])

Thrown == [t |-> "throw"]

-----------------------------------------------------------------------------
(* The data loaders of the pages *)

\* JSON.parse(fs.readFileSync(dataPath, 'utf8')): a missing file and a file
\* that is no JSON both throw
ReadJson(file) == IF file.kind = "json" THEN file.value ELSE Thrown

\* Object.entries(jsonData).reduce(...): precomputeChartData on every entry
\* that has a timeseries.  Object.entries(null) throws, and so does
\* data.timeseries on an entry that is null.
ProcessEntries(jsonData) ==
  IF jsonData.t = "null" THEN Thrown
  ELSE IF \E k \in DOMAIN jsonData.entries : jsonData.entries[k].t = "null" THEN Thrown
  ELSE JsObject([k \in DOMAIN jsonData.entries |->
                   LET entry == jsonData.entries[k]
                   IN  IF "timeseries" \in DOMAIN entry
                       THEN [entry EXCEPT !.timeseries = precomputeChartData(JsArray(@)).items]
                       ELSE entry])

\* app/page.tsx, getAllTokensData: no try/catch
getAllTokensData_plain(f) == ReadJson(f.tokens)

\* app/page.tsx, getPoolData: catch (e) { return {} }
getPoolData_plain(f) ==
  IF ReadJson(f.pools).t = "throw" THEN EmptyObject ELSE ReadJson(f.pools)

\* the cached getAllTokensData: no try/catch either
getAllTokensData(f) ==
  IF ReadJson(f.tokens).t = "throw" THEN Thrown ELSE ProcessEntries(ReadJson(f.tokens))

\* the cached getPoolData: everything inside try, catch (e) { return {} }
getPoolData(f) ==
  IF ReadJson(f.pools).t = "throw" THEN EmptyObject
  ELSE IF ProcessEntries(ReadJson(f.pools)).t = "throw" THEN EmptyObject
  ELSE ProcessEntries(ReadJson(f.pools))

EmptyRegistry == [t |-> "registry", pools |-> [k \in {} |-> JsNull], last_updated |-> JsNull]

\* getPoolRegistry: the comprehensive directory, else the simple registry,
\* else { pools: {}, last_updated: null }
getPoolRegistry(f) ==
  IF ReadJson(f.registry).t # "throw" THEN ReadJson(f.registry)
  ELSE IF ReadJson(f.fallback).t # "throw" THEN ReadJson(f.fallback)
  ELSE EmptyRegistry

-----------------------------------------------------------------------------
(* components/PoolCharts *)

\* Object.entries(data).filter(([_, poolData]) =>
\*   poolData && poolData.timeseries?.length > 0), as the set of its keys
AvailablePools(d) ==
  {k \in DOMAIN d.entries :
     /\ d.entries[k].t # "null"
     /\ "timeseries" \in DOMAIN d.entries[k]
     /\ Len(d.entries[k].timeseries) > 0}

\* what PoolCharts({data}) comes to: Object.entries(null) throws a TypeError
PoolCharts(d) ==
  IF d.t \in {"null", "undefined"} THEN "error"
  ELSE IF AvailablePools(d) = {} THEN "placeholder"
  ELSE "charts"

-----------------------------------------------------------------------------
(* The pages: the page function loads the files and hands the props to its *)
(* client component, which renders the pool section                        *)

PoolPoint(day, tvl, apy) == [date |-> IsoDay(day), tvlUsd |-> tvl, apy |-> apy]

PoolSeries ==
  <<PoolPoint(MakeDay(2025, 7, 30), 0, 1234),
    PoolPoint(MakeDay(2025, 7, 31), 1500, 0),
    [date |-> IsoDay(MakeDay(2025, 8, 1)), tvl |-> 2000000]>>

Pool(symbol, timeseries) == [t |-> "pool", symbol |-> symbol, timeseries |-> timeseries]

Missing == [kind |-> "missing"]

Garbage == [kind |-> "garbage"]

Json(value) == [kind |-> "json", value |-> value]

TokenFiles ==
  {Missing, Garbage, Json(EmptyObject),
   Json(JsObject([ETH |-> Pool("ETH", Series("daily", 3, MakeDay(2025, 8, 1))),
                  BTC |-> Pool("BTC", <<>>)]))}

PoolFiles ==
  {Missing, Garbage, Json(JsNull), Json(EmptyObject),
   Json(JsObject([orca |-> Pool("SOL-USDC", <<>>), cetus |-> [t |-> "pool", symbol |-> "SUI-USDC"]])),
   Json(JsObject([orca |-> Pool("SOL-USDC", PoolSeries), cetus |-> JsNull])),
   Json(JsObject([orca |-> Pool("SOL-USDC", PoolSeries), cetus |-> Pool("SUI-USDC", <<>>)]))}

Registry(names, updated) ==
  [t |-> "registry", pools |-> [k \in names |-> [name |-> k]],
   last_updated |-> [t |-> "string", value |-> updated]]

RegistryFiles == {Missing, Garbage, Json(Registry({"orca", "cetus"}, "2025-09-03"))}

FallbackFiles == {Missing, Garbage, Json(Registry({"orca"}, "2025-09-01"))}

InitPages ==
  /\ IdleClock
  /\ IdleCache
  /\ data = <<>>
  /\ timeWindow = "ALL"
  /\ result = <<>>
  /\ prev = <<>>
  /\ op = "start"
  /\ calls = 0
  /\ files \in [tokens : TokenFiles, pools : PoolFiles,
                registry : RegistryFiles, fallback : FallbackFiles]
  /\ tokensData = Undefined
  /\ poolData = Undefined
  /\ poolRegistry = Undefined
  /\ view = "none"
  /\ poolSection = "none"
  /\ IdleUi

pageFrame == <<wallClock, clockLag, utcOffset, data, timeWindow, result, prev,
               cache, cacheClock, lastSet, replaced, lastKey, ticks, files, uiVars>>

\* app/page.tsx, TokenCharts: getAllTokensData, getPoolData, <DashboardClient>
TokenCharts_plain ==
  /\ view = "none"
  /\ tokensData' = getAllTokensData_plain(files)
  /\ IF getAllTokensData_plain(files).t = "throw"
     THEN view' = "threw" /\ UNCHANGED poolData
     ELSE view' = "dashboard" /\ poolData' = getPoolData_plain(files)
  /\ op' = "TokenCharts"
  /\ calls' = calls + 1
  /\ UNCHANGED <<poolRegistry, poolSection>>
  /\ UNCHANGED pageFrame

\* the cached TokenCharts: getAllTokensData, <DashboardClient poolData={null}>
TokenCharts ==
  /\ view = "none"
  /\ tokensData' = getAllTokensData(files)
  /\ IF getAllTokensData(files).t = "throw"
     THEN view' = "threw" /\ UNCHANGED poolData
     ELSE view' = "dashboard" /\ poolData' = JsNull
  /\ op' = "TokenChartsCached"
  /\ calls' = calls + 1
  /\ UNCHANGED <<poolRegistry, poolSection>>
  /\ UNCHANGED pageFrame

\* app/pools/page.tsx, PoolsPage: getPoolRegistry, getPoolData, <PoolsClient>
PoolsPage ==
  /\ view = "none"
  /\ poolRegistry' = getPoolRegistry(files)
  /\ poolData' = getPoolData(files)
  /\ view' = "pools"
  /\ op' = "PoolsPage"
  /\ calls' = calls + 1
  /\ UNCHANGED <<tokensData, poolSection>>
  /\ UNCHANGED pageFrame

\* DashboardClient renders <PoolCharts data={poolData}>
DashboardClient ==
  /\ view = "dashboard"
  /\ poolSection = "none"
  /\ poolSection' = PoolCharts(poolData)
  /\ op' = "DashboardClient"
  /\ calls' = calls + 1
  /\ UNCHANGED <<tokensData, poolData, poolRegistry, view>>
  /\ UNCHANGED pageFrame

\* PoolsClient renders <PoolCharts data={poolData}> (the skeleton if !poolData)
PoolsClient ==
  /\ view = "pools"
  /\ poolSection = "none"
  /\ poolSection' = IF poolData.t \in {"null", "undefined"} THEN "skeleton"
                    ELSE PoolCharts(poolData)
  /\ op' = "PoolsClient"
  /\ calls' = calls + 1
  /\ UNCHANGED <<tokensData, poolData, poolRegistry, view>>
  /\ UNCHANGED pageFrame

NextPages ==
  \/ TokenCharts_plain
  \/ TokenCharts
  \/ PoolsPage
  \/ DashboardClient
  \/ PoolsClient

SpecPages == InitPages /\ [][NextPages]_vars

-----------------------------------------------------------------------------
(* Pool series as the files hold them, through precomputeChartData (the    *)
(* server side of the pools page) and through the mapping of PoolChart     *)

\* item.tvlUsd || item.tvl || 0, as PoolChart writes it
MappedTvl(item) ==
  IF "tvlUsd" \in DOMAIN item /\ item.tvlUsd # 0 THEN item.tvlUsd
  ELSE IF "tvl" \in DOMAIN item /\ item.tvl # 0 THEN item.tvl
  ELSE 0

\* data.timeseries.map(item => ({...item, tvl: item.tvlUsd || item.tvl || 0}))
mappedTimeseries(timeseries) ==
  [i \in 1..Len(timeseries) |-> [tvl |-> MappedTvl(timeseries[i])] @@ timeseries[i]]

NoFields == [f \in {} |-> 0]

\* the records a pool file can hold for one day: tvlUsd, tvl, both or
\* neither, with or without apy
PoolRecords(day) ==
  {[date |-> IsoDay(day)] @@ usd @@ tvl @@ apy :
     usd \in {NoFields} \cup {[tvlUsd |-> x] : x \in {0, 1500, 2500000}},
     tvl \in {NoFields} \cup {[tvl |-> x] : x \in {0, 900}},
     apy \in {NoFields, [apy |-> 1234]}}

\* the timeseries of a pool: an array of up to two records, or none at all
PoolInputs(today) ==
  {Undefined, JsNull, JsArray(<<>>)}
  \cup {JsArray(<<p>>) : p \in PoolRecords(today - 1)}
  \cup {JsArray(<<p, q>>) : p \in PoolRecords(today - 20), q \in PoolRecords(today - 1)}

InitPool ==
  /\ IdlePages
  /\ IdleUi
  /\ IdleClock
  /\ IdleCache
  /\ data \in PoolInputs(wallClock.day)
  /\ timeWindow \in {"ALL", "1W"}
  /\ result = <<>>
  /\ prev = <<>>
  /\ op = "start"
  /\ calls = 0

poolFrame == <<wallClock, clockLag, utcOffset, timeWindow, cache, cacheClock, lastSet,
               replaced, lastKey, ticks, files, tokensData, poolData, poolRegistry,
               poolSection>>

\* getPoolData: precomputeChartData(data.timeseries)
Precompute ==
  /\ op = "start"
  /\ result' = precomputeChartData(data)
  /\ data' = ArgumentAfterPrecompute(data)
  /\ op' = "precompute"
  /\ calls' = calls + 1
  /\ UNCHANGED <<prev, view>>
  /\ UNCHANGED poolFrame
  /\ UNCHANGED uiVars

\* PoolChart on the series of the file, or on the precomputed one: PoolCharts
\* renders it for the pools that have a non-empty timeseries
PoolChart ==
  /\ op \in {"start", "precompute"}
  /\ LET series == IF op = "start" THEN data ELSE result
     IN  /\ series.t = "array"
         /\ Len(series.items) > 0
         /\ prev' = mappedTimeseries(series.items)
         /\ view' = filterDataByTimeWindow(mappedTimeseries(series.items), timeWindow)
  /\ op' = IF op = "start" THEN "PoolChart" ELSE "PoolChartPrecomputed"
  /\ calls' = calls + 1
  /\ UNCHANGED <<data, result>>
  /\ UNCHANGED poolFrame
  /\ UNCHANGED uiVars

NextPool == Precompute \/ PoolChart

SpecPool == InitPool /\ [][NextPool]_vars

-----------------------------------------------------------------------------
(* The client components: the window selector of the dashboard, the pools  *)
(* page and the table page, the delayed window change of PoolsClient and   *)
(* the loadData effect of TableView.  The timeWindow state of the mounted  *)
(* component is the variable timeWindow, the tokenData and poolData state  *)
(* of TableView are tokensData and poolData, calls counts the clicks.      *)

\* the buttons of TimeWindowFilter with a stray label among them
windowsWithYtd == <<"ALL", "3Y", "1Y", "YTD", "6M", "3M", "1M", "1W">>

\* the values of the `windows` array of TimeWindowFilter, one button each
windows == <<"ALL", "3Y", "1Y", "6M", "3M", "1M", "1W">>

\* the literal array of buttons of TableView
tableWindows == <<"ALL", "3Y", "1Y", "6M", "3M", "1M", "1W">>

ChangeDelay == 100

MaxClicks == 2

\* a timer that is due as soon as it is started: setTimeout(resolve, 0)
TimerDueAtOnce(started) == started

\* when the timer of setTimeout(resolve, 100) started at `started` is due
TimerDue(started) == started + ChangeDelay

Pages == {"dashboard", "pools", "table"}

\* fetch() rejects: the server cannot be reached
Unreachable == [kind |-> "unreachable"]

\* what the server has under /data: a missing file is answered 404 with a
\* body that is no JSON
ServedTokens ==
  {Unreachable, Missing, Garbage,
   Json(JsObject([ETH |-> Pool("ETH", Series("daily", 3, MakeDay(2025, 8, 1)))]))}

ServedPools ==
  {Unreachable, Missing, Garbage, Json(EmptyObject),
   Json(JsObject([orca |-> Pool("SOL-USDC", PoolSeries)]))}

InitUi ==
  /\ IdleClock
  /\ IdleCache
  /\ data = <<>>
  /\ result = <<>>
  /\ prev = <<>>
  /\ op = "start"
  /\ calls = 0
  /\ page \in Pages
  /\ timeWindow = "ALL"
  /\ isChangingTimeWindow = FALSE
  /\ pendingChanges = <<>>
  /\ uiClock = 0
  /\ loading = TRUE
  /\ tokensData = EmptyObject
  /\ poolData = EmptyObject
  /\ files \in IF page = "table"
               THEN [tokens : ServedTokens, pools : ServedPools,
                     registry : {Missing}, fallback : {Missing}]
               ELSE [tokens : {Missing}, pools : {Missing},
                     registry : {Missing}, fallback : {Missing}]
  /\ poolRegistry = Undefined
  /\ view = "none"
  /\ poolSection = "none"
  /\ isVisible = FALSE
  /\ hasLoaded = FALSE
  /\ observing = FALSE
  /\ lazyTimers = <<>>

uiFrame == <<wallClock, clockLag, utcOffset, data, result, prev, cache, cacheClock,
             lastSet, replaced, lastKey, ticks, files, poolRegistry, poolSection,
             page, isVisible, hasLoaded, observing, lazyTimers>>

\* DashboardClient: onChange={setTimeWindow}
DashboardClick(i) ==
  /\ page = "dashboard"
  /\ calls < MaxClicks
  /\ timeWindow' = windows[i]
  /\ op' = "click"
  /\ calls' = calls + 1
  /\ UNCHANGED <<isChangingTimeWindow, pendingChanges, uiClock, loading,
                 tokensData, poolData, view>>
  /\ UNCHANGED uiFrame

\* TableView: onClick={() => setTimeWindow(window)}, rendered once loading is false
TableClick(i) ==
  /\ page = "table"
  /\ ~loading
  /\ calls < MaxClicks
  /\ timeWindow' = tableWindows[i]
  /\ op' = "click"
  /\ calls' = calls + 1
  /\ UNCHANGED <<isChangingTimeWindow, pendingChanges, uiClock, loading,
                 tokensData, poolData, view>>
  /\ UNCHANGED uiFrame

\* PoolsClient, handleTimeWindowChange up to its await: the flag is set and
\* the timer of 100 ms is started
handleTimeWindowChange(i) ==
  /\ page = "pools"
  /\ calls < MaxClicks
  /\ isChangingTimeWindow' = TRUE
  /\ pendingChanges' = Append(pendingChanges,
                              [newTimeWindow |-> windows[i], started |-> uiClock])
  /\ op' = "click"
  /\ calls' = calls + 1
  /\ UNCHANGED <<timeWindow, uiClock, loading, tokensData, poolData, view>>
  /\ UNCHANGED uiFrame

\* handleTimeWindowChange after its await: the timers fire in the order they
\* were started, and the call that waited on the first one goes on
ChangeApplied ==
  /\ page = "pools"
  /\ pendingChanges # <<>>
  /\ TimerDue(Head(pendingChanges).started) <= uiClock
  /\ timeWindow' = Head(pendingChanges).newTimeWindow
  /\ isChangingTimeWindow' = FALSE
  /\ pendingChanges' = Tail(pendingChanges)
  /\ op' = "applied"
  /\ UNCHANGED <<calls, uiClock, loading, tokensData, poolData, view>>
  /\ UNCHANGED uiFrame

\* time passes while a timer is waiting
Elapse(ms) ==
  /\ page = "pools"
  /\ \E k \in 1..Len(pendingChanges) : TimerDue(pendingChanges[k].started) > uiClock
  /\ uiClock' = uiClock + ms
  /\ op' = "elapse"
  /\ UNCHANGED <<calls, timeWindow, isChangingTimeWindow, pendingChanges, loading,
                 tokensData, poolData, view>>
  /\ UNCHANGED uiFrame

\* fetch(url) followed by response.json(): the parsed body, or Thrown when
\* the body is no JSON (also the body of a 404 answer)
ResponseJson(file) == IF file.kind = "json" THEN file.value ELSE Thrown

\* TableView, the effect that calls loadData: both fetches are started
loadData ==
  /\ page = "table"
  /\ view = "none"
  /\ view' = "fetching"
  /\ op' = "loadData"
  /\ UNCHANGED <<calls, timeWindow, isChangingTimeWindow, pendingChanges, uiClock,
                 loading, tokensData, poolData>>
  /\ UNCHANGED uiFrame

\* loadData from the settling of Promise.all to its finally block
loadDataSettled ==
  /\ page = "table"
  /\ view = "fetching"
  /\ LET tokenRejects == files.tokens.kind = "unreachable"
         tokens == ResponseJson(files.tokens)
         pools == IF files.pools.kind = "unreachable" THEN EmptyObject
                  ELSE ResponseJson(files.pools)
         caught == tokenRejects \/ tokens.t = "throw" \/ pools.t = "throw"
     IN  /\ tokensData' = IF caught THEN tokensData ELSE tokens
         /\ poolData' = IF caught THEN poolData ELSE pools
         /\ view' = IF caught THEN "caught" ELSE "loaded"
  /\ loading' = FALSE
  /\ op' = "loadDataSettled"
  /\ UNCHANGED <<calls, timeWindow, isChangingTimeWindow, pendingChanges, uiClock>>
  /\ UNCHANGED uiFrame

NextUi ==
  \/ \E i \in 1..Len(windows) : DashboardClick(i)
  \/ \E i \in 1..Len(tableWindows) : TableClick(i)
  \/ \E i \in 1..Len(windows) : handleTimeWindowChange(i)
  \/ ChangeApplied
  \/ Elapse(ChangeDelay \div 2)
  \/ loadData
  \/ loadDataSettled

SpecUi == InitUi /\ [][NextUi]_vars

\* timers fire and pending fetches settle
SpecUiLive ==
  /\ SpecUi
  /\ WF_vars(ChangeApplied)
  /\ WF_vars(Elapse(ChangeDelay \div 2))
  /\ WF_vars(loadData)
  /\ WF_vars(loadDataSettled)

-----------------------------------------------------------------------------
(* components/LazyChart: one mounted LazyChart, its IntersectionObserver    *)
(* and its timers.  view is what the component renders, calls counts the   *)
(* entries the observer delivers, ticks the changes of the rootMargin prop. *)

LazyDelay == 100

MaxEntries == 3

MaxMarginChanges == 1

MaxClockMs == 200

\* a timer that is due as soon as it is started: setTimeout(..., 0)
LazyTimerDueAtOnce(started) == started

\* when the timer of setTimeout(() => setHasLoaded(true), 100) is due
LazyTimerDue(started) == started + LazyDelay

\* {hasLoaded ? children : fallback}
LazyChart(loaded) == IF loaded THEN "children" ELSE "fallback"

\* after the first render and its effect: the observer observes the element
InitLazy ==
  /\ IdleClock
  /\ IdleCache
  /\ files = [tokens |-> Missing, pools |-> Missing,
              registry |-> Missing, fallback |-> Missing]
  /\ tokensData = Undefined
  /\ poolData = Undefined
  /\ poolRegistry = Undefined
  /\ poolSection = "none"
  /\ view = LazyChart(FALSE)
  /\ data = <<>>
  /\ result = <<>>
  /\ prev = <<>>
  /\ timeWindow = "ALL"
  /\ op = "start"
  /\ calls = 0
  /\ page = "lazy"
  /\ isChangingTimeWindow = FALSE
  /\ pendingChanges = <<>>
  /\ uiClock = 0
  /\ loading = FALSE
  /\ isVisible = FALSE
  /\ hasLoaded = FALSE
  /\ observing = TRUE
  /\ lazyTimers = <<>>

lazyFrame == <<wallClock, clockLag, utcOffset, data, timeWindow, result, prev,
               cache, cacheClock, lastSet, replaced, lastKey,
               files, tokensData, poolData, poolRegistry, poolSection,
               page, isChangingTimeWindow, pendingChanges, loading>>

\* the callback of the IntersectionObserver, which closes over the hasLoaded
\* of the render whose effect made the observer
Intersection(isIntersecting) ==
  /\ page = "lazy"
  /\ observing
  /\ calls < MaxEntries
  /\ IF isIntersecting /\ ~hasLoaded
     THEN /\ isVisible' = TRUE
          /\ lazyTimers' = Append(lazyTimers, uiClock)
          /\ observing' = FALSE
     ELSE UNCHANGED <<isVisible, lazyTimers, observing>>
  /\ op' = IF isIntersecting THEN "intersecting" ELSE "notIntersecting"
  /\ calls' = calls + 1
  /\ UNCHANGED <<hasLoaded, view, uiClock, ticks>>
  /\ UNCHANGED lazyFrame

\* the timer fires: setHasLoaded(true); when that changes the state the
\* component renders again and the effect, which depends on hasLoaded,
\* disconnects its observer and makes a new one
LazyTimerFires ==
  /\ page = "lazy"
  /\ lazyTimers # <<>>
  /\ LazyTimerDue(Head(lazyTimers)) <= uiClock
  /\ hasLoaded' = TRUE
  /\ lazyTimers' = Tail(lazyTimers)
  /\ observing' = IF hasLoaded THEN observing ELSE TRUE
  /\ view' = LazyChart(hasLoaded')
  /\ op' = "timer"
  /\ UNCHANGED <<isVisible, uiClock, calls, ticks>>
  /\ UNCHANGED lazyFrame

\* the parent passes another rootMargin: the effect runs again
RootMarginChanges ==
  /\ page = "lazy"
  /\ ticks < MaxMarginChanges
  /\ observing' = TRUE
  /\ view' = LazyChart(hasLoaded)
  /\ ticks' = ticks + 1
  /\ op' = "rootMargin"
  /\ UNCHANGED <<isVisible, hasLoaded, lazyTimers, uiClock, calls>>
  /\ UNCHANGED lazyFrame

LazyElapse(ms) ==
  /\ page = "lazy"
  /\ uiClock < MaxClockMs
  /\ uiClock' = uiClock + ms
  /\ op' = "elapse"
  /\ UNCHANGED <<isVisible, hasLoaded, observing, lazyTimers, view, calls, ticks>>
  /\ UNCHANGED lazyFrame

NextLazy ==
  \/ \E isIntersecting \in BOOLEAN : Intersection(isIntersecting)
  \/ LazyTimerFires
  \/ RootMarginChanges
  \/ LazyElapse(LazyDelay \div 2)

SpecLazy == InitLazy /\ [][NextLazy]_vars

-----------------------------------------------------------------------------
(* Properties *)

Range(s) == {s[i] : i \in 1..Len(s)}

\* the latest day among the well-dated points of d
LatestDay(d) ==
  LET neg == {-(ParseDate(d[i].date).day) : i \in {j \in 1..Len(d) : IsIsoDay(d[j].date)}}
  IN  -(CHOOSE x \in neg : \A y \in neg : x <= y)

\* out is a subsequence of inp.  The points of a series are pairwise distinct
\* and the price of a point is its position, so a point of out has one place
\* in inp, and the places must increase.
IsSubsequence(out, inp) ==
  /\ \A k \in 1..Len(out) :
        /\ out[k].price \in 1..Len(inp)
        /\ inp[out[k].price] = out[k]
  /\ \A k \in 1..(Len(out) - 1) : out[k].price < out[k + 1].price

\* C1: for a non-ALL window and a non-empty series, filterDataByTimeWindow
\* returns exactly the input points dated at or after the window's cutoff:
\* every returned point is an input point dated at or after the cutoff and no
\* later than the latest input date, and no such input point is missing.
C1_RetainsExactlyFromCutoff ==
  (op = "filter" /\ timeWindow # "ALL" /\ Len(data) > 0) =>
    LET cutoff == CutoffDate(timeWindow)
        inputs == Range(data)
        outputs == Range(result)
        latest == LatestDay(data)
        due == {i \in 1..Len(data) : DateGe(ParseDate(data[i].date), cutoff)}
    IN  /\ \A k \in 1..Len(result) :
              /\ DateGe(ParseDate(result[k].date), cutoff)
              /\ result[k] \in inputs
              /\ ParseDate(result[k].date).day <= latest
        /\ \A i \in due : data[i] \in outputs
        /\ Len(result) = Cardinality(due)

\* a call that kept some points and dropped others, one of them dated on the
\* cutoff instant itself
C1_Witness ==
  /\ op = "filter"
  /\ timeWindow = "1W"
  /\ Len(result) > 0
  /\ Len(result) < Len(data)
  /\ ParseDate(result[1].date) = CutoffDate(timeWindow)

\* C2: for window ALL filterDataByTimeWindow returns its input as it is, and
\* for any window an empty input is returned as it is.
C2_AllAndEmptyAreIdentity ==
  (op = "filter" /\ (timeWindow = "ALL" \/ Len(data) = 0)) => result = data

\* window ALL on a series that every other window would cut
C2_Witness ==
  /\ op = "filter"
  /\ timeWindow = "ALL"
  /\ Len(data) = 400
  /\ result = data
  /\ filterDataByTimeWindow(data, "1Y") # data

\* C3: the output of the reducers is a subsequence of the series of the call.
C3_OutputIsSubsequence ==
  (op \in {"filter"} \cup OptimizeOps) => IsSubsequence(result, data)

\* C4: a get of the key right after set(key, value, ttl) with ttl > 0 returns
\* the value, and a get once ttl or more has elapsed since that set returns null.
C4_GetSetLaw ==
  (op = "get" /\ lastSet.key = lastKey /\ lastSet.ttlMinutes > 0) =>
    /\ cacheClock = lastSet.at => result = lastSet.value
    /\ cacheClock - lastSet.at >= lastSet.ttlMinutes * 60 * 1000 => result = Null

\* C5 as claimed: filtering or density-reducing the output again, with the
\* same window at the same instant, gives the same series.
C5_ReducerIdempotent ==
  (op \in {"filterAgain", "optimizeAgain"}) => result = prev

\* C5 as amended: filterDataByTimeWindow applied to its own output, with the
\* same window at the same instant, returns that output.
C5_FilterIdempotent ==
  op = "filterAgain" => result = prev

\* a second filtering of a series the first one had cut
C5_Witness ==
  /\ op = "filterAgain"
  /\ Len(prev) > 0
  /\ Len(prev) < Len(data)

\* C6: window 1W on more than 7 points returns the last 7 points of the input.
C6_WeekIsLastSeven ==
  (op \in {"filter"} \cup OptimizeOps /\ timeWindow = "1W" /\ Len(data) > 7) =>
    result = SubSeq(data, Len(data) - 6, Len(data))

\* C7: window 1M on more than 60 points returns the last 30 points of the input.
C7_MonthIsLastThirty ==
  (op \in {"filter"} \cup OptimizeOps /\ timeWindow = "1M" /\ Len(data) > 60) =>
    result = SubSeq(data, Len(data) - 29, Len(data))

\* C8: 400 daily points ending 2025-09-01, window 1Y, at any instant of
\* 2025-09-02 (UTC): the points dated 2024-09-02 or later are kept, the last 365.
C8_WorkedExample ==
  ( /\ op = "filter"
    /\ timeWindow = "1Y"
    /\ utcOffset = 0
    /\ wallClock.day = MakeDay(2025, 8, 2)
    /\ data = Series("daily", 400, MakeDay(2025, 8, 1)) ) =>
    /\ result = SubSeq(data, 36, 400)
    /\ result[1].date = <<2024, 9, 2>>

\* the local calendar fields of an instant
Fields(t) == [year |-> YearFromDay(t.day), month |-> MonthFromDay(t.day),
              date |-> DateFromDay(t.day), ms |-> t.ms]

\* the current date moved back by `years` years and `months` months, same day
\* of the month and same time of day
MonthsBack(f, years, months) ==
  [year |-> f.year - years + ((f.month - months) \div 12),
   month |-> (f.month - months) % 12,
   date |-> f.date,
   ms |-> f.ms]

\* C9: the cutoff is the current date moved back by exactly the window's
\* calendar offset (the two clock readings falling in the same millisecond).
C9_CutoffIsExactOffset ==
  (op = "filter" /\ timeWindow # "ALL" /\ clockLag = 0) =>
    LET now == Fields(NowDate)
        cutoff == Fields(CutoffLocal(timeWindow))
    IN  CASE timeWindow = "3Y" -> cutoff = MonthsBack(now, 3, 0)
          [] timeWindow = "1Y" -> cutoff = MonthsBack(now, 1, 0)
          [] timeWindow = "6M" -> cutoff = MonthsBack(now, 0, 6)
          [] timeWindow = "3M" -> cutoff = MonthsBack(now, 0, 3)
          [] timeWindow = "1M" -> cutoff = MonthsBack(now, 0, 1)
          [] timeWindow = "1W" -> CutoffLocal("1W") = Instant(NowDate.day - 7, NowDate.ms)

\* C10: set(key, value, ttl) leaves exactly the entries that were there plus
\* one under key, which carries the new value, the new ttl and the time of
\* this set; the entries under the other keys are as they were.
C10_SetOverwrites ==
  [][op' = "set" =>
       /\ DOMAIN cache' = DOMAIN cache \cup {lastKey'}
       /\ cache'[lastKey'] = [data |-> lastSet'.value,
                              timestamp |-> cacheClock,
                              ttl |-> lastSet'.ttlMinutes * 60 * 1000]
       /\ \A k \in DOMAIN cache \ {lastKey'} : cache'[k] = cache[k]]_vars

\* a set over an older entry of the same key that held another value and
\* another ttl, while the other key keeps its entry
C10_Witness ==
  /\ op = "set"
  /\ replaced # NoEntry
  /\ replaced.timestamp < cacheClock
  /\ replaced.data # lastSet.value
  /\ replaced.ttl # cache[lastKey].ttl
  /\ Cardinality(DOMAIN cache) = 2

\* the entries of c without the one under key
Without(c, key) == [k \in DOMAIN c \ {key} |-> c[k]]

\* C11: get on an entry whose ttl has run out returns null and deletes that
\* entry (one entry fewer, a following get or has finds nothing); get on an
\* absent key returns null and get on a live entry returns its value, both
\* leaving the cache as it was.
C11_GetEvictsExpired ==
  [][op' = "get" =>
       LET key == lastKey'
       IN  IF key \notin DOMAIN cache
           THEN result' = Null /\ cache' = cache
           ELSE IF cacheClock - cache[key].timestamp > cache[key].ttl
           THEN /\ result' = Null
                /\ cache' = Without(cache, key)
                /\ DataCache_size(cache') = DataCache_size(cache) - 1
                /\ DataCache_get(cache', key) = Null
                /\ ~DataCache_has(cache', key)
           ELSE result' = cache[key].data /\ cache' = cache]_vars

\* a get that found the entry of the latest set expired and deleted it, while
\* the entry of the other key stayed
C11_Witness ==
  /\ op = "get"
  /\ result = Null
  /\ lastSet.key = lastKey
  /\ cacheClock - lastSet.at > lastSet.ttlMinutes * 60 * 1000
  /\ lastKey \notin DOMAIN cache
  /\ DataCache_size(cache) = 1

\* C12: has(key) is true exactly when get(key) would find a live entry, and
\* it leaves the cache that get(key) would leave.
C12_HasAgreesWithGet ==
  [][op' = "has" =>
       /\ result' = (DataCache_get(cache, lastKey') # Null)
       /\ cache' = IF DataCache_get(cache, lastKey') = Null
                   THEN Without(cache, lastKey')
                   ELSE cache]_vars

\* a has exactly ttl after the set, which still answers true
C12_Witness ==
  /\ op = "has"
  /\ result = TRUE
  /\ lastSet.key = lastKey
  /\ lastSet.ttlMinutes > 0
  /\ cacheClock - lastSet.at = lastSet.ttlMinutes * 60 * 1000

\* C13: an entry leaves the cache only by a get or has of its own key after
\* its ttl ran out, or by clear; set keeps every other entry and adds one
\* for a new key, whatever the size; time passing changes nothing.
C13_RemovalOnlyOnReadOrClear ==
  [][/\ \A k \in DOMAIN cache \ DOMAIN cache' :
           \/ op' = "clear"
           \/ /\ op' \in {"get", "has"}
              /\ k = lastKey'
              /\ cacheClock - cache[k].timestamp > cache[k].ttl
     /\ op' = "set" =>
           /\ DOMAIN cache \subseteq DOMAIN cache'
           /\ DataCache_size(cache') =
                 DataCache_size(cache) + (IF lastKey' \in DOMAIN cache THEN 0 ELSE 1)
     /\ op' = "tick" => cache' = cache]_vars

\* two sets to two keys, time passing beyond the ttl of both, and size() = 2
C13_Witness ==
  /\ op = "size"
  /\ result = 2
  /\ \A k \in DOMAIN cache : cacheClock - cache[k].timestamp > cache[k].ttl

\* C14: a call of optimizeDataForTimeWindow with a non-ALL window and a
\* non-empty series, made no more than 30 minutes after a result was stored
\* for the same window and length, returns that stored result and computes
\* and stores nothing; made later, or with nothing stored, it returns the
\* reduction of its own series and stores it with the time of the call.
C14_MemoizedWithinTtl ==
  [][op' \in {"optimizeHit", "optimizeMiss"} =>
       LET key == CacheKey(timeWindow', Len(data'))
       IN  IF /\ key \in DOMAIN cache
              /\ cacheClock - cache[key].timestamp <= OptimizeTtlMinutes * MsPerMinute
           THEN /\ result' = cache[key].data
                /\ lastSet.key = key => result' = lastSet.value
                /\ cache' = cache
                /\ op' = "optimizeHit"
           ELSE /\ result' = OptimizedData(data', timeWindow')
                /\ key \in DOMAIN cache'
                /\ cache'[key] = [data |-> result', timestamp |-> cacheClock,
                                  ttl |-> OptimizeTtlMinutes * MsPerMinute]
                /\ op' = "optimizeMiss"]_vars

\* a second call exactly 30 minutes after the first, on another series of
\* the same length, that returned the stored result of the first
C14_Witness ==
  /\ op = "optimizeHit"
  /\ calls = 2
  /\ lastSet.key = CacheKey(timeWindow, Len(data))
  /\ cacheClock - lastSet.at = OptimizeTtlMinutes * MsPerMinute
  /\ result = lastSet.value
  /\ result # OptimizedData(data, timeWindow)

\* the 0-based indexes of the points of d that the subsampling keeps: those
\* divisible by stride before the tail, and the last `tail` ones
KeptIndexes(d, stride, tail) ==
  {i \in 0..(Len(d) - 1) : i >= Len(d) - tail \/ i % stride = 0}

\* C15: window 3M on more than 180 points returns the last 90 input points
\* and, before them, exactly the points at even index; window 1Y on more than
\* 365 points returns the last 365 input points and, before them, exactly the
\* points at index divisible by 7.
C15_SubsampleKeepsTail ==
  (op \in OptimizeOps /\
   \/ timeWindow = "3M" /\ Len(data) > QuarterThreshold
   \/ timeWindow = "1Y" /\ Len(data) > YearPoints) =>
    LET stride == IF timeWindow = "3M" THEN 2 ELSE 7
        tail == IF timeWindow = "3M" THEN QuarterTail ELSE YearPoints
        kept == KeptIndexes(data, stride, tail)
    IN  /\ IsSubsequence(result, data)
        /\ {result[k].price - 1 : k \in 1..Len(result)} = kept
        /\ SubSeq(result, Len(result) - tail + 1, Len(result)) =
             SubSeq(data, Len(data) - tail + 1, Len(data))

\* C16: the density reduction returns a bounded number of points for every
\* non-ALL window, whatever the length of the input.  The largest count the
\* branches name is the 365 points of the 1Y tail, taken here as the bound.
C16_PointCountBounded ==
  (op \in OptimizeOps /\ timeWindow # "ALL") => Len(result) <= YearPoints

\* C17: a loader whose file is missing or is no JSON does not fail, it
\* substitutes an empty mapping and the page goes on to render: the token
\* loader, the pool loader, and the registry loader, which tries the fallback
\* file before it substitutes the empty registry.
C17_LoadersSubstituteEmpty ==
  /\ (op \in {"TokenCharts", "TokenChartsCached"} /\ files.tokens.kind # "json") =>
        view = "dashboard" /\ tokensData = EmptyObject
  /\ (op = "TokenCharts" /\ view = "dashboard" /\ files.pools.kind # "json") =>
        poolData = EmptyObject
  /\ op = "PoolsPage" =>
        /\ view = "pools"
        /\ files.pools.kind # "json" => poolData = EmptyObject
        /\ files.registry.kind # "json" =>
              poolRegistry = IF files.fallback.kind = "json" THEN files.fallback.value
                             ELSE EmptyRegistry

\* no pool of the poolData prop has a point to chart
NoPoolData ==
  \/ poolData.t \in {"null", "undefined"}
  \/ \A k \in DOMAIN poolData.entries :
        \/ poolData.entries[k].t = "null"
        \/ "timeseries" \notin DOMAIN poolData.entries[k]
        \/ Len(poolData.entries[k].timeseries) = 0

\* C18: the pool section is the "No pool data available" placeholder, without
\* an error, when the poolData prop is empty, holds only pools without points
\* or is null; it is not the placeholder when some pool has points.
C18_PlaceholderWhenNoPoolData ==
  op \in {"DashboardClient", "PoolsClient"} =>
    IF NoPoolData THEN poolSection = "placeholder" ELSE poolSection # "placeholder"

\* C19: points whose date is missing or is no date raise no error in
\* filterDataByTimeWindow: window ALL returns them with the rest, and every
\* other window leaves them out and still returns every well-dated point at
\* or after the cutoff.
C19_UndatedPointsLeftOut ==
  (op = "filter" /\ \E i \in 1..Len(data) : ~IsIsoDay(data[i].date)) =>
    IF timeWindow = "ALL"
    THEN result = data
    ELSE /\ \A k \in 1..Len(result) : IsIsoDay(result[k].date)
         /\ \A i \in 1..Len(data) :
               (IsIsoDay(data[i].date) /\ DateGe(ParseDate(data[i].date), CutoffDate(timeWindow)))
                 => data[i] \in Range(result)

\* a series with a missing date and a string that is no date, both left out
\* by a window that kept well-dated points
C19_Witness ==
  /\ op = "filter"
  /\ timeWindow = "1M"
  /\ \E i \in 1..Len(data) : data[i].date = NoDate
  /\ \E i \in 1..Len(data) : data[i].date = NotADate
  /\ Len(result) > 0
  /\ \A k \in 1..Len(result) : IsIsoDay(result[k].date)

C21_WindowIsOneOfSeven ==
  /\ timeWindow \in {"ALL", "3Y", "1Y", "6M", "3M", "1M", "1W"}
  /\ op = "start" => timeWindow = "ALL"
  /\ \A k \in 1..Len(pendingChanges) :
        pendingChanges[k].newTimeWindow \in {"ALL", "3Y", "1Y", "6M", "3M", "1M", "1W"}
  /\ {windows[i] : i \in 1..Len(windows)} = {"ALL", "3Y", "1Y", "6M", "3M", "1M", "1W"}
  /\ {tableWindows[i] : i \in 1..Len(tableWindows)} = {"ALL", "3Y", "1Y", "6M", "3M", "1M", "1W"}

\* the first click on the table page, on the last button
C21_Witness ==
  /\ page = "table"
  /\ op = "click"
  /\ calls = 1
  /\ timeWindow = "1W"

\* the value the statement gives for a point: tvlUsd when present and
\* non-zero, otherwise tvl when present and non-zero, otherwise 0
ToleratedTvl(point) ==
  CASE "tvlUsd" \in DOMAIN point /\ point.tvlUsd # 0 -> point.tvlUsd
    [] OTHER -> CASE "tvl" \in DOMAIN point /\ point.tvl # 0 -> point.tvl
                  [] OTHER -> 0

\* C22: for every point of a pool series the tvl of the chart is the point's
\* tvlUsd when present and non-zero, else its tvl when present and non-zero,
\* else 0, in the output of precomputeChartData and in the mapping of
\* PoolChart, on the series of the file and on the precomputed one; the two
\* give the same value at every point.
C22_EitherFieldName ==
  /\ (op = "precompute" /\ data.t = "array") =>
        /\ Len(result.items) = Len(data.items)
        /\ \A i \in 1..Len(data.items) : result.items[i].tvl = ToleratedTvl(data.items[i])
  /\ op \in {"PoolChart", "PoolChartPrecomputed"} =>
        /\ Len(prev) = Len(data.items)
        /\ \A i \in 1..Len(data.items) :
              /\ prev[i].tvl = ToleratedTvl(data.items[i])
              /\ prev[i].tvl = precomputeChartData(data).items[i].tvl
  /\ op = "PoolChartPrecomputed" =>
        \A i \in 1..Len(prev) : prev[i].tvl = result.items[i].tvl

\* a precomputed series whose first point has both fields and whose second
\* has only tvl, charted
C22_Witness ==
  /\ op = "PoolChartPrecomputed"
  /\ Len(prev) = 2
  /\ DOMAIN data.items[1] = {"date", "tvlUsd", "tvl"}
  /\ data.items[1].tvlUsd = 1500
  /\ data.items[1].tvl = 900
  /\ DOMAIN data.items[2] = {"date", "tvl", "apy"}
  /\ prev[1].tvl = 1500
  /\ prev[2].tvl = 900

Nested == <<"1W", "1M", "3M", "6M", "1Y", "3Y", "ALL">>

\* a <= b on Dates
DateLe(a, b) == DateGe(b, a)

\* C24: at one current instant (both clock readings of the call equal), the
\* output for the window of the call is a subsequence of the output for
\* every longer window, in the order 1W, 1M, 3M, 6M, 1Y, 3Y, ALL: both are
\* subsequences of the input and every point of the shorter is in the longer;
\* and the cutoffs are ordered cutoff(3Y) <= cutoff(1Y) <= cutoff(6M) <=
\* cutoff(3M) <= cutoff(1M) <= cutoff(1W) <= now.
C24_WindowsNested ==
  (op = "filter" /\ clockLag = 0) =>
    /\ \A i \in 1..Len(Nested) :
          Nested[i] = timeWindow =>
            \A j \in i..Len(Nested) :
               LET longer == filterDataByTimeWindow(data, Nested[j])
               IN  /\ IsSubsequence(result, data)
                   /\ IsSubsequence(longer, data)
                   /\ Range(result) \subseteq Range(longer)
    /\ \A i \in 1..(Len(Nested) - 2) :
          DateLe(CutoffDate(Nested[i + 1]), CutoffDate(Nested[i]))
    /\ DateLe(CutoffDate("1W"), ToUtc(NowDate))

\* 31 March 2024 with window 1M: setMonth overflows to 2 March, the call
\* keeps one point and window 3M keeps all three
C24_Witness ==
  /\ op = "filter"
  /\ clockLag = 0
  /\ timeWindow = "1M"
  /\ wallClock.day = MakeDay(2024, 2, 31)
  /\ CutoffLocal("1M").day = MakeDay(2024, 2, 2)
  /\ Len(result) = 1
  /\ Len(filterDataByTimeWindow(data, "3M")) = 3

\* C25: on the pools page a change is applied no sooner than 100 ms after its
\* click and sets the window of that click; every started change is
\* eventually applied; and when the last pending change has been applied the
\* selected window is the window of the last click and isChangingTimeWindow
\* is false, as it is whenever no change is pending.
C25_ChangesComplete ==
  /\ [][op' = "applied" =>
          /\ pendingChanges # <<>>
          /\ pendingChanges' = Tail(pendingChanges)
          /\ uiClock' - Head(pendingChanges).started >= 100
          /\ timeWindow' = Head(pendingChanges).newTimeWindow
          /\ pendingChanges' = <<>> =>
                /\ timeWindow' = pendingChanges[Len(pendingChanges)].newTimeWindow
                /\ ~isChangingTimeWindow']_vars
  /\ [](pendingChanges = <<>> => ~isChangingTimeWindow)
  /\ \A n \in 1..MaxClicks : (Len(pendingChanges) = n) ~> (Len(pendingChanges) < n)
  /\ (pendingChanges # <<>>) ~> (pendingChanges = <<>>)

\* two clicks 50 ms apart, the second on 1W, both applied
C25_Witness ==
  /\ page = "pools"
  /\ op = "applied"
  /\ calls = 2
  /\ uiClock = 150
  /\ pendingChanges = <<>>
  /\ timeWindow = "1W"
  /\ ~isChangingTimeWindow

\* C26: isChangingTimeWindow is true in every state in which a started change
\* has not been applied yet.
C26_FlagWhilePending ==
  pendingChanges # <<>> => isChangingTimeWindow

\* C27: on the table page loading becomes false once loadData has run,
\* whatever the two fetches come to; and when the token file loads and the
\* pool file does not (its fetch rejects or its body is no JSON), the token
\* data is set and the pool data is the empty mapping.
C27_LoadingEndsAndTokensSurvive ==
  /\ (page = "table" /\ view = "fetching") ~> ~loading
  /\ [](~loading => view \in {"loaded", "caught"})
  /\ []((op = "loadDataSettled" /\ files.tokens.kind = "json"
                                /\ files.pools.kind # "json") =>
          /\ tokensData = files.tokens.value
          /\ poolData = EmptyObject)

\* C28: LazyChart shows the fallback until its element has been observed
\* intersecting and the timer started then has run its 100 ms, and the
\* children from then on: hasLoaded, once true, stays true whatever entries
\* the observer delivers afterwards.
C28_ChildrenAfterIntersectionAndDelay ==
  /\ [](view = (IF hasLoaded THEN "children" ELSE "fallback"))
  /\ [](hasLoaded => isVisible)
  /\ [](isVisible => (hasLoaded \/ lazyTimers # <<>>))
  /\ [][(~hasLoaded /\ hasLoaded') =>
          /\ lazyTimers # <<>>
          /\ uiClock' - Head(lazyTimers) >= 100]_vars
  /\ [][hasLoaded => (hasLoaded' /\ view' = "children")]_vars

\* an entry that is not intersecting, delivered to the observer made after
\* the children were shown
C28_Witness ==
  /\ page = "lazy"
  /\ op = "notIntersecting"
  /\ hasLoaded
  /\ observing
  /\ view = "children"

\* the fields precomputeChartData writes into every point
Computed == {"tvl", "tvlChange", "formattedTvl", "formattedApy"}

\* C29 as claimed: one output point per input point in the same order, every
\* original field kept as it was; the first tvlChange is 0, and so is that of
\* a point whose predecessor charts a tvl of 0; an empty or missing series is
\* returned as is.
C29_KeepsEveryField ==
  op = "precompute" =>
    IF data.t # "array" \/ Len(data.items) = 0 THEN result = data
    ELSE /\ result.t = "array"
         /\ Len(result.items) = Len(data.items)
         /\ \A i \in 1..Len(data.items) :
               /\ DOMAIN data.items[i] \subseteq DOMAIN result.items[i]
               /\ \A f \in DOMAIN data.items[i] : result.items[i][f] = data.items[i][f]
               /\ (i = 1 \/ ToleratedTvl(data.items[IF i = 1 THEN 1 ELSE i - 1]) = 0) =>
                     /\ result.items[i].tvlChange.num = 0
                     /\ result.items[i].tvlChange.den # 0

\* C29: one output point per input point in the same order, with every
\* original field, each as it was except tvl, which becomes the charted
\* value (tvlUsd when non-zero, else tvl, else 0); the point gains tvlChange,
\* formattedTvl and formattedApy; the first tvlChange is 0, and so is that of
\* a point whose predecessor charts a tvl of 0, with no division by zero; an
\* empty or missing series is returned as is.
C29_KeepsFieldsButTvl ==
  op = "precompute" =>
    IF data.t # "array" \/ Len(data.items) = 0 THEN result = data
    ELSE /\ result.t = "array"
         /\ Len(result.items) = Len(data.items)
         /\ \A i \in 1..Len(data.items) :
               /\ DOMAIN result.items[i] = DOMAIN data.items[i] \cup Computed
               /\ \A f \in DOMAIN data.items[i] \ Computed :
                     result.items[i][f] = data.items[i][f]
               /\ result.items[i].tvl = ToleratedTvl(data.items[i])
               /\ (i = 1 \/ ToleratedTvl(data.items[IF i = 1 THEN 1 ELSE i - 1]) = 0) =>
                     /\ result.items[i].tvlChange.num = 0
                     /\ result.items[i].tvlChange.den # 0

\* a first point with tvlUsd 0 and no tvl, followed by a point with tvlUsd
\* 1500 and tvl 900: the second gets tvl 1500 and tvlChange 0
C29_Witness ==
  /\ op = "precompute"
  /\ data.t = "array"
  /\ Len(data.items) = 2
  /\ DOMAIN data.items[1] = {"date", "tvlUsd", "apy"}
  /\ data.items[1].tvlUsd = 0
  /\ DOMAIN data.items[2] = {"date", "tvlUsd", "tvl"}
  /\ data.items[2].tvlUsd = 1500
  /\ data.items[2].tvl = 900
  /\ result.items[2].tvl = 1500
  /\ result.items[2].tvlChange.num = 0
  /\ result.items[2].date = data.items[2].date

====
